---- MODULE Spec2Model ----
(***************************************************************************)
(* frost-autofix: the admission-and-queue lifecycle.                       *)
(*                                                                         *)
(*   src/src/backend.js   POST /autofix: writes a task file into the queue *)
(*   src/src/consumer.js  main(): gate, claim, agent, resolve, callback    *)
(*   src/src/worker.js    handleWebhook / handleIssueOpened /              *)
(*                        handleFixCommand / handleCallback over the D1    *)
(*                        tables of src/unnamed/part_000                   *)
(*                                                                         *)
(* The three directories of the mailbox are functions from file names to   *)
(* task records.  A consumer invocation is a process with a program        *)
(* counter, one step per file-system call of main().                       *)
(***************************************************************************)
EXTENDS Integers, Sequences, FiniteSets, TLC

VARIABLES
    now,            \* wall clock: Date.now() / datetime('now')
    queueDir,       \* QUEUE_DIR:      file name -> task record
    processingDir,  \* PROCESSING_DIR: file name -> task record
    doneDir,        \* DONE_DIR:       file name -> task record
    pc,             \* consumer invocation -> position in main()
    taskFile,       \* consumer invocation -> its taskFile local
    task,           \* consumer invocation -> its task local
    callbackLog,    \* reports posted by callbackWorker, in order
    nextId,         \* history: identity given to the next enqueued task
    written,        \* history: file names Enqueue has written
    attempts,       \* history: task identity -> agent invocations
    failures,       \* history: task identity -> agent failures
    renames,        \* history: file name -> successful renames since the queue file was last written
    invocations,    \* history: consumer invocations started
    today,          \* the worker's and D1's clock: new Date(), datetime('now')
    installations,  \* table installations: github_installation_id -> row
    usage_monthly,  \* table usage_monthly: <<installation_id, month>> -> pr_count
    fix_runs,       \* table fix_runs: rows in insertion order
    response,       \* the worker's last HTTP response
    received,       \* history: the request handled last (of a callback, its headers alone)
    handling,       \* callback requests in progress: handler -> position in handleCallback and body
    admitting,      \* issue events in progress: handler -> position in handleIssueOpened, payload, row read
    pending         \* history: <<tenant, repo, issue>> -> tasks enqueued by issue events and not yet reported

mailboxVars == <<queueDir, processingDir, doneDir>>
consumerVars == <<pc, taskFile, task, callbackLog>>
historyVars == <<nextId, written, attempts, failures, renames>>
ledgerVars == <<today, installations, usage_monthly, fix_runs, response, received, handling, admitting, pending>>
vars == <<now, mailboxVars, consumerVars, historyVars, invocations, ledgerVars>>

----------------------------------------------------------------------------
(* Bounds of the model *)

MaxClock == 1
MaxTasks == 2
MaxInvocations == 3
MaxDay == 1
MaxRuns == 1
MaxUsage == 2
MaxAdmitted == 6

(* Program constants *)

MAX_CONCURRENT == 1
MaxRetries == 3

Null == "null"

\* a number that is not there: null, undefined and 0 are alike falsy
None == 0

\* a completed_at that is NULL
Never == -1
Repos == {"acme/api", "zeta/web"}
Consumers == {"c1", "c2"}
Cron == "c1"

----------------------------------------------------------------------------
(* File names.  backend.js names a task                                    *)
(*   `${task.repo.replace("/", "-")}-${task.issue}-${Date.now()}.json`;     *)
(* the worker's body carries issue_number and no issue field, so the       *)
(* middle part is the text "undefined" for every task: a name is decided   *)
(* by the repository slug and the millisecond.                             *)

Slug(repo) ==
    CASE repo = "acme/api" -> "acme-api"
      [] repo = "zeta/web" -> "zeta-web"

\* position of a slug in the order of Array.prototype.sort() on the names
SlugRank(slug) ==
    CASE slug = "acme-api" -> 1
      [] slug = "zeta-web" -> 2

TaskName(repo, ms) == <<Slug(repo), "undefined", ms>>

NameBefore(a, b) ==
    \/ SlugRank(a[1]) < SlugRank(b[1])
    \/ a[1] = b[1] /\ a[3] < b[3]

\* queued[0] after .sort()
First(names) == CHOOSE n \in names : \A m \in names \ {n} : NameBefore(n, m)

----------------------------------------------------------------------------
(* Directory primitives *)

Exists(dir, name) == name \in DOMAIN dir

\* fs.writeFileSync: create or overwrite
WriteFile(dir, name, rec) == [n \in DOMAIN dir \cup {name} |-> IF n = name THEN rec ELSE dir[n]]

\* fs.unlinkSync
Unlink(dir, name) == [n \in DOMAIN dir \ {name} |-> dir[n]]

Bump(f, k) == [x \in DOMAIN f \cup {k} |-> IF x = k THEN (IF k \in DOMAIN f THEN f[k] ELSE 0) + 1 ELSE f[x]]

Reset(f, k) == [x \in DOMAIN f \cup {k} |-> IF x = k THEN 0 ELSE f[x]]

Count(f, k) == IF k \in DOMAIN f THEN f[k] ELSE 0

----------------------------------------------------------------------------
(* backend.js: POST /autofix *)

\* the parsed body as it is written to the queue; retries, last_error,
\* result and completed_at are absent until the consumer sets them
\* (task.retries || 0 reads an absent retries as 0)
NewTask(id, inst, repo, issue) ==
    [id |-> id, installation_id |-> inst, repo |-> repo, issue_number |-> issue,
     retries |-> 0, last_error |-> Null, result |-> Null, completed_at |-> Null]

Enqueue(inst, repo, issue) ==
    LET name == TaskName(repo, now) IN
    /\ queueDir' = WriteFile(queueDir, name, NewTask(nextId, inst, repo, issue))
    /\ nextId' = nextId + 1
    /\ written' = written \cup {name}
    /\ renames' = Reset(renames, name)
    /\ UNCHANGED <<processingDir, doneDir, attempts, failures>>

\* the route: a request without the bearer token is answered 401
Autofix(authorized, inst, repo, issue) ==
    IF authorized
      THEN Enqueue(inst, repo, issue)
      ELSE UNCHANGED <<mailboxVars, historyVars>>

BackendAutofix(authorized, inst, repo, issue) ==
    /\ Autofix(authorized, inst, repo, issue)
    /\ UNCHANGED <<ledgerVars, invocations, now, consumerVars>>

----------------------------------------------------------------------------
(* consumer.js: main() *)

NoFile == <<>>
NoTask == [id |-> 0]

Goto(p, label) == pc' = [pc EXCEPT ![p] = label]

\* the process ends: return, process.exit(1) after main().catch, or a kill
Exit(p) ==
    /\ pc' = [pc EXCEPT ![p] = "idle"]
    /\ taskFile' = [taskFile EXCEPT ![p] = NoFile]
    /\ task' = [task EXCEPT ![p] = NoTask]

Start(p) ==
    /\ pc[p] = "idle"
    /\ Goto(p, "gate")
    /\ invocations' = invocations + 1
    /\ UNCHANGED <<ledgerVars, now, mailboxVars, taskFile, task, callbackLog, historyVars>>

\* mutant: the gate never closes
GateOpenAlways == TRUE

\* mutant: MAX_CONCURRENT of 2
GateOpenTwo == Cardinality(DOMAIN processingDir) < 2

GateOpen == Cardinality(DOMAIN processingDir) < MAX_CONCURRENT

Gate(p) ==
    /\ pc[p] = "gate"
    /\ IF GateOpen
         THEN Goto(p, "scan") /\ UNCHANGED <<taskFile, task>>
         ELSE Exit(p)
    /\ UNCHANGED <<ledgerVars, invocations, now, mailboxVars, callbackLog, historyVars>>

Scan(p) ==
    /\ pc[p] = "scan"
    /\ IF DOMAIN queueDir = {}
         THEN Exit(p)
         ELSE /\ Goto(p, "rename")
              /\ taskFile' = [taskFile EXCEPT ![p] = First(DOMAIN queueDir)]
              /\ UNCHANGED task
    /\ UNCHANGED <<ledgerVars, invocations, now, mailboxVars, callbackLog, historyVars>>

\* mutant: a copy that leaves the source in place
RenameSourceKept(name) == queueDir

\* fs.renameSync: one indivisible move, replacing the destination
RenameSource(name) == Unlink(queueDir, name)

Rename(p) ==
    /\ pc[p] = "rename"
    /\ IF Exists(queueDir, taskFile[p])
         THEN /\ processingDir' = WriteFile(processingDir, taskFile[p], queueDir[taskFile[p]])
              /\ queueDir' = RenameSource(taskFile[p])
              /\ renames' = Bump(renames, taskFile[p])
              /\ Goto(p, "load")
              /\ UNCHANGED <<taskFile, task>>
         ELSE \* ENOENT leaves main(): Fatal, exit 1
              /\ Exit(p)
              /\ UNCHANGED <<queueDir, processingDir, renames>>
    /\ UNCHANGED <<ledgerVars, invocations, now, doneDir, callbackLog, nextId, written, attempts, failures>>

Load(p) ==
    /\ pc[p] = "load"
    /\ IF Exists(processingDir, taskFile[p])
         THEN /\ task' = [task EXCEPT ![p] = processingDir[taskFile[p]]]
              /\ Goto(p, "agent")
              /\ UNCHANGED taskFile
         ELSE Exit(p)
    /\ UNCHANGED <<ledgerVars, invocations, now, mailboxVars, callbackLog, historyVars>>

\* mutant: off by one, a fourth attempt is allowed
ExhaustedLate(retries) == retries > MaxRetries

\* mutant: the second failure is final
ExhaustedEarly(retries) == retries >= MaxRetries - 1

Exhausted(retries) == retries >= MaxRetries

\* mutant: every failure is stamped as an outcome
CaughtStamped(t) ==
    [t EXCEPT !.retries = t.retries + 1, !.last_error = "error",
              !.result = "failed", !.completed_at = now]

\* the catch block up to its branch: lines 58-63
Caught(t) ==
    LET r == t.retries + 1 IN
    IF Exhausted(r)
      THEN [t EXCEPT !.retries = r, !.last_error = "error",
                     !.result = "failed", !.completed_at = now]
      ELSE [t EXCEPT !.retries = r, !.last_error = "error"]

\* mutant: every failure is final
CatchLabelFinal(t) == "writeFailed"

CatchLabel(t) == IF Exhausted(t.retries + 1) THEN "writeFailed" ELSE "requeue"

AgentSucceeds(p) ==
    /\ pc[p] = "agent"
    /\ task' = [task EXCEPT ![p] = [task[p] EXCEPT !.result = "completed", !.completed_at = now]]
    /\ attempts' = Bump(attempts, task[p].id)
    /\ Goto(p, "writeDone")
    /\ UNCHANGED <<ledgerVars, invocations, now, mailboxVars, taskFile, callbackLog, nextId, written, failures, renames>>

AgentFails(p) ==
    /\ pc[p] = "agent"
    /\ task' = [task EXCEPT ![p] = Caught(task[p])]
    /\ attempts' = Bump(attempts, task[p].id)
    /\ failures' = Bump(failures, task[p].id)
    /\ Goto(p, CatchLabel(task[p]))
    /\ UNCHANGED <<ledgerVars, invocations, now, mailboxVars, taskFile, callbackLog, nextId, written, renames>>

\* mutant: the outcome is written into the wrong directory
WriteDoneMisplaced(p) ==
    /\ pc[p] = "writeDone"
    /\ processingDir' = WriteFile(processingDir, taskFile[p], task[p])
    /\ Goto(p, "unlinkDone")
    /\ UNCHANGED <<ledgerVars, invocations, now, queueDir, doneDir, taskFile, task, callbackLog, historyVars>>

\* line 53
WriteDone(p) ==
    /\ pc[p] = "writeDone"
    /\ doneDir' = WriteFile(doneDir, taskFile[p], task[p])
    /\ Goto(p, "unlinkDone")
    /\ UNCHANGED <<ledgerVars, invocations, now, queueDir, processingDir, taskFile, task, callbackLog, historyVars>>

\* mutant: main() loops until the queue is empty
UnlinkDoneLoop(p) ==
    /\ pc[p] = "unlinkDone"
    /\ processingDir' = Unlink(processingDir, taskFile[p])
    /\ Goto(p, "scan")
    /\ UNCHANGED <<ledgerVars, invocations, now, queueDir, doneDir, taskFile, task, callbackLog, historyVars>>

\* line 54; ENOENT is thrown inside the try block and lands in the catch
UnlinkDone(p) ==
    /\ pc[p] = "unlinkDone"
    /\ IF Exists(processingDir, taskFile[p])
         THEN /\ processingDir' = Unlink(processingDir, taskFile[p])
              /\ Exit(p)
         ELSE /\ task' = [task EXCEPT ![p] = Caught(task[p])]
              /\ Goto(p, CatchLabel(task[p]))
              /\ UNCHANGED <<processingDir, taskFile>>
    /\ UNCHANGED <<ledgerVars, invocations, now, queueDir, doneDir, callbackLog, historyVars>>

\* line 65
WriteFailed(p) ==
    /\ pc[p] = "writeFailed"
    /\ doneDir' = WriteFile(doneDir, taskFile[p], task[p])
    /\ Goto(p, "unlinkFailed")
    /\ UNCHANGED <<ledgerVars, invocations, now, queueDir, processingDir, taskFile, task, callbackLog, historyVars>>

\* line 66
UnlinkFailed(p) ==
    /\ pc[p] = "unlinkFailed"
    /\ IF Exists(processingDir, taskFile[p])
         THEN /\ processingDir' = Unlink(processingDir, taskFile[p])
              /\ Goto(p, "callback")
              /\ UNCHANGED <<taskFile, task>>
         ELSE Exit(p) /\ UNCHANGED processingDir
    /\ UNCHANGED <<ledgerVars, invocations, now, queueDir, doneDir, callbackLog, historyVars>>

\* callbackWorker(task, "failed", null, err.message): the only call site
Report(t, status, prNumber, errorMessage) ==
    [id |-> t.id, installation_id |-> t.installation_id, repo |-> t.repo,
     issue_number |-> t.issue_number, status |-> status,
     pr_number |-> prNumber, error_message |-> errorMessage]

Callback(p) ==
    /\ pc[p] = "callback"
    /\ callbackLog' = Append(callbackLog, Report(task[p], "failed", Null, task[p].last_error))
    /\ Exit(p)
    /\ UNCHANGED <<ledgerVars, invocations, now, mailboxVars, historyVars>>

\* mutant: the retry is written under a name of its own
RequeueRenamed(p) ==
    /\ pc[p] = "requeue"
    /\ queueDir' = WriteFile(queueDir, <<taskFile[p][1], "retry", now>>, task[p])
    /\ renames' = Reset(renames, <<taskFile[p][1], "retry", now>>)
    /\ Goto(p, "unlinkRetry")
    /\ UNCHANGED <<ledgerVars, invocations, now, processingDir, doneDir, taskFile, task, callbackLog,
                   nextId, written, attempts, failures>>

\* line 71
Requeue(p) ==
    /\ pc[p] = "requeue"
    /\ queueDir' = WriteFile(queueDir, taskFile[p], task[p])
    /\ renames' = Reset(renames, taskFile[p])
    /\ Goto(p, "unlinkRetry")
    /\ UNCHANGED <<ledgerVars, invocations, now, processingDir, doneDir, taskFile, task, callbackLog,
                   nextId, written, attempts, failures>>

\* mutant: the in-flight file of a retry is left behind
UnlinkRetrySkipped(p) ==
    /\ pc[p] = "unlinkRetry"
    /\ Exit(p)
    /\ UNCHANGED <<ledgerVars, invocations, now, mailboxVars, callbackLog, historyVars>>

\* line 72
UnlinkRetry(p) ==
    /\ pc[p] = "unlinkRetry"
    /\ IF Exists(processingDir, taskFile[p])
         THEN processingDir' = Unlink(processingDir, taskFile[p])
         ELSE UNCHANGED processingDir
    /\ Exit(p)
    /\ UNCHANGED <<ledgerVars, invocations, now, queueDir, doneDir, callbackLog, historyVars>>

\* the consumer process is killed between two of its steps
Crash(p) ==
    /\ pc[p] # "idle"
    /\ Exit(p)
    /\ UNCHANGED <<ledgerVars, invocations, now, mailboxVars, callbackLog, historyVars>>

ConsumerStep(p) ==
    \/ Gate(p)
    \/ Scan(p)
    \/ Rename(p)
    \/ Load(p)
    \/ AgentSucceeds(p)
    \/ AgentFails(p)
    \/ WriteDone(p)
    \/ UnlinkDone(p)
    \/ WriteFailed(p)
    \/ UnlinkFailed(p)
    \/ Callback(p)
    \/ Requeue(p)
    \/ UnlinkRetry(p)

Tick ==
    /\ now < MaxClock
    /\ now' = now + 1
    /\ UNCHANGED <<ledgerVars, invocations, mailboxVars, consumerVars, historyVars>>


----------------------------------------------------------------------------
(* Text.  A string is the sequence of its characters. *)

Upper == <<"A", "B", "C", "D", "E", "F", "G", "H", "I", "J", "K", "L", "M",
           "N", "O", "P", "Q", "R", "S", "T", "U", "V", "W", "X", "Y", "Z">>

Lower == <<"a", "b", "c", "d", "e", "f", "g", "h", "i", "j", "k", "l", "m",
           "n", "o", "p", "q", "r", "s", "t", "u", "v", "w", "x", "y", "z">>

LowerChar(c) ==
    IF \E i \in DOMAIN Upper : Upper[i] = c
      THEN Lower[CHOOSE i \in DOMAIN Upper : Upper[i] = c]
      ELSE c

toLowerCase(s) == [i \in 1 .. Len(s) |-> LowerChar(s[i])]

includes(s, kw) == \E i \in 0 .. (Len(s) - Len(kw)) : SubSeq(s, i + 1, i + Len(kw)) = kw

Whitespace == {" ", "\n"}

trim(s) ==
    LET kept == {i \in 1 .. Len(s) : s[i] \notin Whitespace} IN
    IF kept = {}
      THEN <<>>
      ELSE SubSeq(s, CHOOSE i \in kept : \A j \in kept : i <= j,
                     CHOOSE i \in kept : \A j \in kept : i >= j)

TextKeywords ==
    { <<"e", "r", "r", "o", "r">>,
      <<"b", "u", "g">>,
      <<"c", "r", "a", "s", "h">>,
      <<"f", "a", "i", "l">>,
      <<"b", "r", "o", "k", "e", "n">>,
      <<"e", "x", "c", "e", "p", "t", "i", "o", "n">>,
      <<"t", "r", "a", "c", "e", "b", "a", "c", "k">>,
      <<"t", "y", "p", "e", "e", "r", "r", "o", "r">>,
      <<"r", "e", "f", "e", "r", "e", "n", "c", "e", "e", "r", "r", "o", "r">>,
      <<"u", "n", "d", "e", "f", "i", "n", "e", "d">> }

LabelKeywords ==
    { <<"b", "u", "g">>, <<"f", "i", "x">>, <<"e", "r", "r", "o", "r">> }

\* mutant: label names are compared as they are written
looksLikeBugAsWritten(title, body, labels) ==
    \/ \E l \in labels : \E kw \in LabelKeywords : includes(l, kw)
    \/ LET text == toLowerCase(title \o <<" ">> \o body) IN
       \E kw \in TextKeywords : includes(text, kw)

\* labels is the set of the label names
looksLikeBug(title, body, labels) ==
    \/ \E l \in labels : \E kw \in LabelKeywords : includes(toLowerCase(l), kw)
    \/ LET text == toLowerCase(title \o <<" ">> \o body) IN
       \E kw \in TextKeywords : includes(text, kw)

\* mutant: a comment that only ends with the command is taken for it
FixCommandsLoose ==
    { <<"/", "f", "i", "x">>, <<"/", "a", "u", "t", "o", "f", "i", "x">>,
      <<"p", "l", "s", " ", "/", "f", "i", "x">> }

FixCommands == { <<"/", "f", "i", "x">>, <<"/", "a", "u", "t", "o", "f", "i", "x">> }

----------------------------------------------------------------------------
(* worker.js: the requests it is sent *)

Tenants == {1, 2}
Issues == {1, 2}
LedgerRepo == "acme/api"

WEBHOOK_SECRET == "webhook-secret"
BACKEND_TOKEN == "backend-token"

\* HMAC-SHA256 as a keyed function without collisions: the digest of a body
\* under a key is the pair of them
Hmac(body, secret) == <<body, secret>>

\* the header is absent or empty
NoSignature == <<>>

Expected(body, secret) == <<"sha256=", Hmac(body, secret)>>

\* mutant: any header of the right form is accepted
verifyPrefix(body, signature, secret) == signature # NoSignature /\ signature[1] = "sha256="

verifySignature(body, signature, secret) == signature = Expected(body, secret)

Payload(action, inst, issue, title, body, labels, comment) ==
    [action |-> action, installation |-> inst, repo |-> LedgerRepo,
     issue_number |-> issue, title |-> title, body |-> body, labels |-> labels,
     comment |-> comment]

\* "TypeError", no label
TypeErrorIssue(inst, issue) ==
    Payload("opened", inst, issue, <<"T", "y", "p", "e", "E", "r", "r", "o", "r">>, <<>>, {}, <<>>)

\* "Add dark mode", label enhancement
FeatureIssue(inst, issue) ==
    Payload("opened", inst, issue,
            <<"A", "d", "d", " ", "d", "a", "r", "k", " ", "m", "o", "d", "e">>, <<>>,
            { <<"e", "n", "h", "a", "n", "c", "e", "m", "e", "n", "t">> }, <<>>)

\* "Slow page", label Bug
LabelledIssue(inst, issue) ==
    Payload("opened", inst, issue,
            <<"S", "l", "o", "w", " ", "p", "a", "g", "e">>, <<>>,
            { <<"B", "u", "g">> }, <<>>)

\* "Slow page", body "App crashes", no label
BodyIssue(inst, issue) ==
    Payload("opened", inst, issue,
            <<"S", "l", "o", "w", " ", "p", "a", "g", "e">>,
            <<"A", "p", "p", " ", "c", "r", "a", "s", "h", "e", "s">>, {}, <<>>)

ClosedIssue(inst, issue) ==
    Payload("closed", inst, issue, <<"T", "y", "p", "e", "E", "r", "r", "o", "r">>, <<>>, {}, <<>>)

Comment(inst, issue, comment) ==
    Payload("created", inst, issue, <<"S", "l", "o", "w", " ", "p", "a", "g", "e">>, <<>>, {}, comment)

Comments ==
    { <<" ", "/", "F", "i", "x", "\n">>,
      <<"/", "a", "u", "t", "o", "f", "i", "x">>,
      <<"p", "l", "s", " ", "/", "f", "i", "x">> }

Lifecycle(action, inst) == Payload(action, inst, None, <<>>, <<>>, {}, <<>>)

LifecycleActions == {"created", "deleted", "suspend", "unsuspend"}

IssuePayloads ==
    { TypeErrorIssue(i, n) : i \in Tenants \cup {None}, n \in Issues }
      \cup { FeatureIssue(i, n) : i \in Tenants, n \in Issues }
      \cup { LabelledIssue(i, n) : i \in Tenants, n \in Issues }
      \cup { BodyIssue(i, n) : i \in Tenants, n \in Issues }
      \cup { ClosedIssue(i, n) : i \in Tenants, n \in Issues }

CommentPayloads == { Comment(i, n, c) : i \in Tenants \cup {None}, n \in Issues, c \in Comments }

LifecyclePayloads == { Lifecycle(a, i) : a \in LifecycleActions, i \in Tenants }

Request(event, signature, payload) ==
    [event |-> event, signature |-> signature, bearer |-> Null, payload |-> payload]

Signed(event, payload) == Request(event, Expected(payload, WEBHOOK_SECRET), payload)

\* requests GitHub sends
Genuine ==
    { Signed("issues", p) : p \in IssuePayloads }
      \cup { Signed("issue_comment", p) : p \in CommentPayloads }
      \cup { Signed("installation", p) : p \in LifecyclePayloads }
      \cup { Signed("installation_repositories", Lifecycle("added", i)) : i \in Tenants }
      \cup { Signed("push", Lifecycle(Null, i)) : i \in Tenants }

\* requests of a sender who does not hold the secret: no signature, a
\* signature under another key, the signature of another body
Forgeries(payload, other) ==
    { Request("issues", sig, payload) :
        sig \in { NoSignature, Expected(payload, "guess"), Expected(other, WEBHOOK_SECRET) } }

Forged == UNION { Forgeries(TypeErrorIssue(i, n), FeatureIssue(i, n)) : i \in Tenants, n \in Issues }

Requests == Genuine \cup Forged

\* before the first request
NoRequest == Request(Null, NoSignature, Lifecycle(Null, None))

\* a POST to /callback with its Authorization header
Post(auth) == [Request("callback", NoSignature, Lifecycle(Null, None)) EXCEPT !.bearer = auth]

\* what becomes of the POST to the backend: accepted, answered 401, or the
\* fetch throws
Forwards == {"delivered", "refused", "unreachable"}

CallbackBody(inst, issue, status, prNumber, errorMessage) ==
    [installation_id |-> inst, repo |-> LedgerRepo, issue_number |-> issue,
     status |-> status, pr_number |-> prNumber, error_message |-> errorMessage]

Callbacks ==
    { CallbackBody(i, n, "success", 42, Null) : i \in Tenants, n \in Issues }
      \cup { CallbackBody(i, n, "success", None, Null) : i \in Tenants, n \in Issues }
      \cup { CallbackBody(i, n, "failed", None, "agent failed") : i \in Tenants, n \in Issues }
      \cup { CallbackBody(i, n, "processing", None, "") : i \in Tenants, n \in Issues }

Bearers == {BACKEND_TOKEN, "guess", Null}

----------------------------------------------------------------------------
(* worker.js over the D1 tables *)

DEFAULT_PLAN == "free"
DEFAULT_PR_LIMIT == 5
UNLIMITED == -1

\* the columns a handler reads or writes
Installation(plan, limit) == [plan |-> plan, pr_limit |-> limit]

Run(inst, repo, issue) ==
    [installation_id |-> inst, repo |-> repo, issue_number |-> issue,
     pr_number |-> None, status |-> "queued", error_message |-> Null,
     completed_at |-> Never]

Put(table, key, row) == [k \in DOMAIN table \cup {key} |-> IF k = key THEN row ELSE table[k]]

Delete(table, key) == [k \in DOMAIN table \ {key} |-> table[k]]

InsertOrIgnore(table, key, row) == IF key \in DOMAIN table THEN table ELSE Put(table, key, row)

\* new Date().toISOString().slice(0, 7); the last day of the model's
\* calendar is the first day of the next month
Month(day) == IF day < MaxDay THEN 0 ELSE 1

\* the truth of a number, a string or a header in a condition
Truthy(x) == x # None

Filled(text) == text \notin {Null, ""}

Sent(signature) == signature # NoSignature

\* x || null
NumberOrNull(x) == IF Truthy(x) THEN x ELSE None

TextOrNull(text) == IF Filled(text) THEN text ELSE Null

Json(status, detail) == [code |-> 200, status |-> status, detail |-> detail]

Text(code, text) == [code |-> code, status |-> Null, detail |-> text]

\* a statement the database refuses throws out of the handler
Thrown == Text(500, "exception")

\* rows of the tables that name the tenant in a FOREIGN KEY column
Referenced(inst) ==
    \/ \E i \in 1 .. Len(fix_runs) : fix_runs[i].installation_id = inst
    \/ \E k \in DOMAIN usage_monthly : k[1] = inst

Forward(fwd, inst, repo, issue) ==
    IF fwd = "unreachable"
      THEN UNCHANGED <<mailboxVars, historyVars>>
      ELSE Autofix(fwd = "delivered", inst, repo, issue)

\* enforced: whether the database enforces the FOREIGN KEY clauses of the
\* schema; the code does not say, and either happens
handleInstallationEvent(payload, enforced) ==
    LET inst == payload.installation
        action == payload.action
    IN
    /\ CASE action = "created" ->
              /\ installations' = InsertOrIgnore(installations, inst,
                                                 Installation(DEFAULT_PLAN, DEFAULT_PR_LIMIT))
              /\ response' = Json("ok", action)
         [] action = "deleted" ->
              IF enforced /\ Referenced(inst)
                THEN /\ response' = Thrown
                     /\ UNCHANGED installations
                ELSE /\ installations' = Delete(installations, inst)
                     /\ response' = Json("ok", action)
         [] action = "suspend" ->
              /\ installations' = [k \in DOMAIN installations |->
                     IF k = inst THEN [installations[k] EXCEPT !.plan = "suspended"]
                                 ELSE installations[k]]
              /\ response' = Json("ok", action)
         [] action = "unsuspend" ->
              /\ installations' = [k \in DOMAIN installations |->
                     IF k = inst THEN [installations[k] EXCEPT !.plan = "free"]
                                 ELSE installations[k]]
              /\ response' = Json("ok", action)
         [] OTHER ->
              /\ response' = Json("ok", action)
              /\ UNCHANGED installations
    /\ UNCHANGED <<usage_monthly, fix_runs, pending, mailboxVars, historyVars>>

\* mutant: INSERT OR REPLACE
ensureInstallationReplace(inst) ==
    Put(installations, inst, Installation(DEFAULT_PLAN, DEFAULT_PR_LIMIT))

ensureInstallation(inst) ==
    InsertOrIgnore(installations, inst, Installation(DEFAULT_PLAN, DEFAULT_PR_LIMIT))

\* mutant: the counter may reach one past the limit
LimitPassed(limit, count) == limit > 0 /\ count > limit

LimitReached(limit, count) == limit > 0 /\ count >= limit

handleIssueOpened(payload, fwd) ==
    LET installId == payload.installation
        repo == payload.repo
        issue == payload.issue_number
    IN
    IF ~Truthy(installId)
      THEN /\ response' = Json("skipped", "no_installation")
           /\ UNCHANGED <<installations, usage_monthly, fix_runs, pending,
                          mailboxVars, historyVars>>
    ELSE IF ~looksLikeBug(payload.title, payload.body, payload.labels)
      THEN /\ response' = Json("skipped", "not_bug")
           /\ UNCHANGED <<installations, usage_monthly, fix_runs, pending,
                          mailboxVars, historyVars>>
    ELSE
      LET ensured == ensureInstallation(installId)
          install == ensured[installId]
          count == Count(usage_monthly, <<installId, Month(today)>>)
      IN
      /\ installations' = ensured
      /\ IF LimitReached(install.pr_limit, count)
           THEN /\ response' = Json("skipped", "limit_reached")
                /\ UNCHANGED <<fix_runs, pending, mailboxVars, historyVars>>
           ELSE /\ fix_runs' = Append(fix_runs, Run(installId, repo, issue))
                /\ Forward(fwd, installId, repo, issue)
                /\ pending' = IF fwd = "delivered"
                                THEN Bump(pending, <<installId, repo, issue>>)
                                ELSE pending
                /\ response' = Json("queued", Null)
      /\ UNCHANGED usage_monthly

handleFixCommand(payload, fwd) ==
    LET installId == payload.installation
        repo == payload.repo
        issue == payload.issue_number
    IN
    IF ~Truthy(installId)
      THEN /\ response' = Json("skipped", Null)
           /\ UNCHANGED <<installations, usage_monthly, fix_runs, pending,
                          mailboxVars, historyVars>>
      ELSE /\ installations' = ensureInstallation(installId)
           /\ fix_runs' = Append(fix_runs, Run(installId, repo, issue))
           /\ Forward(fwd, installId, repo, issue)
           /\ response' = Json("queued", Null)
           /\ UNCHANGED <<usage_monthly, pending>>

\* mutant: a response without a database statement leaves a run record
UnchangedLogged(text) ==
    /\ response' = text
    /\ fix_runs' = Append(fix_runs, Run(None, LedgerRepo, None))
    /\ UNCHANGED <<installations, usage_monthly, pending, mailboxVars, historyVars>>

Unchanged(text) ==
    /\ response' = text
    /\ UNCHANGED <<installations, usage_monthly, fix_runs, pending,
                   mailboxVars, historyVars>>

handleWebhook(request, fwd, enforced) ==
    LET body == request.payload
        signature == request.signature
        event == request.event
        payload == request.payload
    IN
    /\ IF ~Sent(signature)
         THEN Unchanged(Text(401, "Missing signature"))
       ELSE IF ~verifySignature(body, signature, WEBHOOK_SECRET)
         THEN Unchanged(Text(401, "Invalid signature"))
       ELSE IF event = "installation"
         THEN handleInstallationEvent(payload, enforced)
       ELSE IF event = "installation_repositories"
         THEN Unchanged(Json("ok", payload.action))
       ELSE IF event = "issues" /\ payload.action = "opened"
         THEN handleIssueOpened(payload, fwd)
       ELSE IF /\ event = "issue_comment"
               /\ payload.action = "created"
               /\ toLowerCase(trim(payload.comment)) \in FixCommands
         THEN handleFixCommand(payload, fwd)
       ELSE Unchanged(Json("ignored", event))
    /\ received' = request
    /\ UNCHANGED <<today, now, invocations, consumerVars, handling, admitting>>

Matches(row, data) ==
    /\ row.installation_id = data.installation_id
    /\ row.repo = data.repo
    /\ row.issue_number = data.issue_number

\* mutant: the UPDATE without its status condition
UpdatableAlways(row) == TRUE

Updatable(row) == row.status \in {"queued", "processing"}

Settle(key) ==
    IF Count(pending, key) > 0
      THEN [pending EXCEPT ![key] = @ - 1]
      ELSE pending

\* any Authorization header that was sent passes
AuthorizedPresent(auth) == auth # Null

\* auth === `Bearer ${env.BACKEND_TOKEN}`
Authorized(auth) == auth = BACKEND_TOKEN

\* UPDATE fix_runs SET ... WHERE ... AND status IN('queued','processing')
UpdateRuns(data) ==
    [i \in 1 .. Len(fix_runs) |->
        IF Matches(fix_runs[i], data) /\ Updatable(fix_runs[i])
          THEN [fix_runs[i] EXCEPT !.status = data.status,
                                   !.pr_number = NumberOrNull(data.pr_number),
                                   !.error_message = TextOrNull(data.error_message),
                                   !.completed_at = today]
          ELSE fix_runs[i]]

\* mutant: INSERT OR REPLACE ... VALUES(?,?,1)
UpsertReplace(table, key) == Put(table, key, 1)

\* INSERT ... VALUES(?,?,1) ON CONFLICT(installation_id,month) DO UPDATE SET
\* pr_count=pr_count+1: one statement
Upsert(table, key) == Bump(table, key)

\* mutant: the PR number is not looked at
CountsAnySuccess(data) == data.status = "success"

\* line 310
Counts(data) == data.status = "success" /\ Truthy(data.pr_number)

handleCallback(auth, data, enforced) ==
    /\ IF ~Authorized(auth)
         THEN Unchanged(Text(401, "Unauthorized"))
         ELSE
           /\ fix_runs' = UpdateRuns(data)
           /\ pending' = Settle(<<data.installation_id, data.repo, data.issue_number>>)
           /\ IF Counts(data)
                THEN IF enforced /\ data.installation_id \notin DOMAIN installations
                       THEN /\ response' = Thrown
                            /\ UNCHANGED usage_monthly
                       ELSE /\ usage_monthly' = Upsert(usage_monthly,
                                                       <<data.installation_id, Month(today)>>)
                            /\ response' = Json("updated", Null)
                ELSE /\ response' = Json("updated", Null)
                     /\ UNCHANGED usage_monthly
           /\ UNCHANGED <<installations, mailboxVars, historyVars>>
    /\ received' = Post(auth)
    /\ UNCHANGED <<today, now, invocations, consumerVars, handling, admitting>>

NextDay ==
    /\ today < MaxDay
    /\ today' = today + 1
    /\ UNCHANGED <<installations, usage_monthly, fix_runs, response, received, handling, admitting, pending>>
    /\ UNCHANGED <<now, invocations, mailboxVars, consumerVars, historyVars>>

----------------------------------------------------------------------------
Handlers == {"h1", "h2"}

\* no request yet
NoCallback == [at |-> "idle", data |-> CallbackBody(None, None, Null, None, Null)]

\* no issue event yet; install is the row the SELECT of line 264 returned
NoAdmission ==
    [at |-> "idle", payload |-> Lifecycle(Null, None), found |-> FALSE,
     install |-> Installation(Null, None)]

\* everything but the three tables
Quiet ==
    /\ now = 0
    /\ queueDir = <<>>
    /\ processingDir = <<>>
    /\ doneDir = <<>>
    /\ pc = [p \in Consumers |-> "idle"]
    /\ taskFile = [p \in Consumers |-> NoFile]
    /\ task = [p \in Consumers |-> NoTask]
    /\ callbackLog = <<>>
    /\ nextId = 1
    /\ written = {}
    /\ attempts = <<>>
    /\ failures = <<>>
    /\ renames = <<>>
    /\ invocations = 0
    /\ today = 0
    /\ response = Text(0, Null)
    /\ received = NoRequest
    /\ handling = [h \in Handlers |-> NoCallback]
    /\ admitting = [h \in Handlers |-> NoAdmission]
    /\ pending = <<>>

Empty == Quiet /\ fix_runs = <<>>

Init == Empty /\ installations = <<>> /\ usage_monthly = <<>>

EnqueueStep ==
    \E authorized \in BOOLEAN, repo \in Repos :
        /\ nextId <= MaxTasks
        /\ BackendAutofix(authorized, 1, repo, 1)

\* the periodic job as designed: invocations do not overlap, and the count
\* of invocations is not kept
CronStart ==
    /\ pc[Cron] = "idle"
    /\ Goto(Cron, "gate")
    /\ UNCHANGED <<ledgerVars, invocations, now, mailboxVars, taskFile, task, callbackLog, historyVars>>

NextQueue ==
    \/ EnqueueStep
    \/ Tick
    \/ CronStart
    \/ ConsumerStep(Cron)
    \/ Crash(Cron)

SpecQueue == Init /\ [][NextQueue]_vars

\* invocations started while another one is running, all within one reading
\* of the clock: two queued files then differ by their repository
ConcStart == \E p \in Consumers : invocations < MaxInvocations /\ Start(p)

NextConc ==
    \/ EnqueueStep
    \/ ConcStart
    \/ \E p \in Consumers : ConsumerStep(p)

SpecConc == Init /\ [][NextConc]_vars

----------------------------------------------------------------------------
(* Properties of the mailbox and the consumer *)

Regions == <<queueDir, processingDir, doneDir>>

RegionsOf(name) == {i \in 1 .. 3 : Exists(Regions[i], name)}

AllNames == DOMAIN queueDir \cup DOMAIN processingDir \cup DOMAIN doneDir

\* positions of main() at which the invocation has renamed a file into
\* PROCESSING_DIR and not yet returned
Claimed == {"load", "agent", "writeDone", "unlinkDone", "writeFailed",
            "unlinkFailed", "requeue", "unlinkRetry"}

\* C1: with enqueues, agent outcomes, crashes and non-overlapping consumer
\* invocations, the in-flight region never holds more than one task.
SingleFlight == Cardinality(DOMAIN processingDir) <= 1

\* C1 witness: an invocation reaches the gate while a task left behind by a
\* killed invocation is in flight and another task waits in the queue.
SingleFlightWitness ==
    /\ pc[Cron] = "gate"
    /\ Cardinality(DOMAIN processingDir) = 1
    /\ DOMAIN queueDir # {}

\* C2: under overlapping invocations, a file written into the queue is
\* renamed into in-flight by at most one invocation: between two writes of
\* a queue file at most one rename of it succeeds.
ExclusiveClaim == \A n \in DOMAIN renames : renames[n] <= 1

\* C2 witness: an invocation is about to rename a file that another running
\* invocation has already renamed away.
ExclusiveClaimWitness ==
    \E p, q \in Consumers :
        /\ p # q
        /\ pc[p] = "rename"
        /\ ~Exists(queueDir, taskFile[p])
        /\ pc[q] \in Claimed
        /\ taskFile[q] = taskFile[p]

\* C3 (as claimed): under overlapping invocations at most one of them holds
\* a claim at a time and in-flight never holds two tasks.
ConcurrentSingleClaim ==
    /\ Cardinality({p \in Consumers : pc[p] \in Claimed}) <= 1
    /\ Cardinality(DOMAIN processingDir) <= 1

\* C4 (as claimed): no task is in two regions at once, in any state,
\* including the states between the two file-system calls of Resolve.  The
\* formula asks only that two regions never hold the same task under the
\* same name, which the claim implies.
RegionExclusive ==
    \A n \in AllNames : \A i, j \in RegionsOf(n) :
        i # j => Regions[i][n].id # Regions[j][n].id

\* C5: a name Enqueue has written is in at least one region in every later
\* state, whatever step the consumer is killed at.
NoLostTask == \A n \in written : RegionsOf(n) # {}

\* C5 witness: the consumer was killed between writing the outcome and
\* removing the in-flight file.
NoLostTaskWitness ==
    /\ pc[Cron] = "idle"
    /\ \E n \in written : Exists(processingDir, n) /\ Exists(doneDir, n)

\* C6: the agent runs at most 3 times for a task; a task with 3 failed runs
\* is never written back to the queue; when the invocation of the third
\* failure reaches its callback the task is in done with a failure outcome.
RetryCeiling ==
    /\ \A id \in DOMAIN attempts : attempts[id] <= 3
    /\ \A n \in DOMAIN queueDir : Count(failures, queueDir[n].id) < 3
    /\ \A p \in Consumers :
        /\ pc[p] \in {"requeue", "unlinkRetry"} => Count(failures, task[p].id) < 3
        /\ Count(failures, task[p].id) = 3 /\ pc[p] \in Claimed
              => pc[p] \in {"writeFailed", "unlinkFailed"}
        /\ pc[p] = "callback" =>
              /\ Count(failures, task[p].id) = 3
              /\ Exists(doneDir, taskFile[p])
              /\ doneDir[taskFile[p]].id = task[p].id
              /\ doneDir[taskFile[p]].result = "failed"
              /\ doneDir[taskFile[p]].retries = 3

\* C6 witness: a task whose agent failed three times rests in done.
RetryCeilingWitness ==
    \E n \in DOMAIN doneDir :
        /\ doneDir[n].result = "failed"
        /\ Count(failures, doneDir[n].id) = 3
        /\ RegionsOf(n) = {3}

----------------------------------------------------------------------------
(* The worker alone *)

\* events of tenant 1 that ask for a run: a bug report, a fix command
RunRequests ==
    { Signed("issues", TypeErrorIssue(1, n)) : n \in Issues }
      \cup { Signed("issue_comment", Comment(1, n, <<"/", "a", "u", "t", "o", "f", "i", "x">>)) :
                n \in Issues }

\* reports about tenant 1 of every kind, and failure reports about tenant 2
LedgerCallbacks ==
    { data \in Callbacks : data.installation_id = 1 \/ data.status = "failed" }

\* runs are recorded while the backend cannot be reached; reports of any
\* content arrive at any time, also from senders without the token
RunRecorded ==
    \E request \in RunRequests, fwd \in {"refused", "unreachable"}, enforced \in BOOLEAN :
        /\ handleWebhook(request, fwd, enforced)
        /\ Len(fix_runs') <= MaxRuns

Reconcile ==
    \E auth \in Bearers, data \in LedgerCallbacks, enforced \in BOOLEAN :
        /\ handleCallback(auth, data, enforced)
        /\ \A k \in DOMAIN usage_monthly' : usage_monthly'[k] <= MaxUsage

NextLedger ==
    \/ RunRecorded
    \/ Reconcile
    \/ NextDay

SpecLedger == Init /\ [][NextLedger]_vars

----------------------------------------------------------------------------
(* Automated enqueueing: every bug report the worker admits reaches the     *)
(* backend, and one success report with a PR number comes back for each     *)
(* task enqueued                                                            *)

\* tenant 1 is new, or the operator has put it on the unlimited plan
Provisioned == {<<>>, 1 :> Installation("pro", UNLIMITED)}

InitQuota == Empty /\ installations \in Provisioned /\ usage_monthly = <<>>

BugReported ==
    \E enforced \in BOOLEAN :
        /\ handleWebhook(Signed("issues", TypeErrorIssue(1, 1)), "delivered", enforced)
        /\ Len(fix_runs') <= MaxAdmitted

Succeeded ==
    \E enforced \in BOOLEAN :
        /\ Count(pending, <<1, LedgerRepo, 1>>) > 0
        /\ handleCallback(BACKEND_TOKEN, CallbackBody(1, 1, "success", 42, Null), enforced)

NextQuota ==
    \/ BugReported
    \/ Succeeded
    \/ NextDay

SpecQuota == InitQuota /\ [][NextQuota]_vars

----------------------------------------------------------------------------
(* Properties of the ledger *)

\* the report repeats one already reconciled this month: its run record is
\* success with the same PR number, and no run of the issue is still open
Redelivered(data) ==
    /\ data.status = "success"
    /\ Truthy(data.pr_number)
    /\ \E i \in 1 .. Len(fix_runs) :
          /\ Matches(fix_runs[i], data)
          /\ fix_runs[i].status = "success"
          /\ fix_runs[i].pr_number = data.pr_number
          /\ Month(fix_runs[i].completed_at) = Month(today)
    /\ \A i \in 1 .. Len(fix_runs) :
          Matches(fix_runs[i], data) => fix_runs[i].status \notin {"queued", "processing"}

\* C7 (as claimed): the second delivery of an authenticated success report
\* (same tenant, repo, issue, pr_number) leaves the usage counters as the
\* first delivery set them, so that the two deliveries count 1 and not 2.
IdempotentCallback ==
    [][\A data \in Callbacks, enforced \in BOOLEAN :
          handleCallback(BACKEND_TOKEN, data, enforced) /\ Redelivered(data)
              => usage_monthly' = usage_monthly]_vars

\* C8: a run record whose status is not queued or processing is the same
\* after every step, whatever report arrives and whenever; no run record
\* is removed.
RunMonotonic ==
    [][/\ Len(fix_runs') >= Len(fix_runs)
       /\ \A i \in 1 .. Len(fix_runs) :
             fix_runs[i].status \notin {"queued", "processing"} => fix_runs'[i] = fix_runs[i]]_vars

\* C8 witness: a run that failed last month, and a success report with a
\* PR number for its tenant received this month.
RunMonotonicWitness ==
    \E i \in 1 .. Len(fix_runs) :
        /\ fix_runs[i].status = "failed"
        /\ fix_runs[i].completed_at # Never
        /\ Month(fix_runs[i].completed_at) < Month(today)
        /\ Count(usage_monthly, <<fix_runs[i].installation_id, Month(today)>>) >= 1

\* C9 (as claimed): under automated enqueueing the counter of the current
\* month of a tenant with a positive pr_limit never exceeds the limit.
QuotaRespected ==
    \A t \in DOMAIN installations :
        installations[t].pr_limit > 0
            => Count(usage_monthly, <<t, Month(today)>>) <= installations[t].pr_limit

\* C10: an authentic bug report of a tenant with limit L (5 for a tenant
\* not yet recorded) and count c for the current month is answered
\* limit_reached exactly when L > 0 and c >= L, and then no run is
\* recorded; otherwise it is answered queued and a run is recorded; with L
\* the unlimited sentinel it is always answered queued.
QuotaDecision ==
    [][\A n \in Issues, fwd \in Forwards, enforced \in BOOLEAN :
          handleWebhook(Signed("issues", TypeErrorIssue(1, n)), fwd, enforced) =>
              LET L == IF 1 \in DOMAIN installations
                         THEN installations[1].pr_limit
                         ELSE DEFAULT_PR_LIMIT
                  c == Count(usage_monthly, <<1, Month(today)>>)
                  rejected == response' = Json("skipped", "limit_reached")
                  admitted == /\ response' = Json("queued", Null)
                              /\ Len(fix_runs') = Len(fix_runs) + 1
              IN
              /\ rejected <=> (L > 0 /\ c >= L)
              /\ rejected => fix_runs' = fix_runs
              /\ ~rejected => admitted
              /\ L = UNLIMITED => admitted]_vars

\* C10 witness: a bug report of a tenant with limit 5 and count 5 has just
\* been answered limit_reached.
QuotaDecisionWitness ==
    /\ response = Json("skipped", "limit_reached")
    /\ 1 \in DOMAIN installations
    /\ installations[1].pr_limit = 5
    /\ Count(usage_monthly, <<1, Month(today)>>) = 5

----------------------------------------------------------------------------
(* Bug reports, their success reports, and fix commands of one tenant *)

CommandReceived ==
    \E c \in Comments, enforced \in BOOLEAN :
        /\ handleWebhook(Signed("issue_comment", Comment(1, 1, c)), "delivered", enforced)
        /\ Len(fix_runs') <= MaxAdmitted

NextCommand ==
    \/ BugReported
    \/ Succeeded
    \/ CommandReceived
    \/ NextDay

SpecCommand == InitQuota /\ [][NextCommand]_vars

\* C11 (as claimed): a /fix or /autofix comment of a tenant whose limit is
\* positive and whose count for the current month has reached it is
\* answered limit_reached and records no run and writes no task.
CommandQuota ==
    [][\A c \in Comments, fwd \in Forwards, enforced \in BOOLEAN :
          (/\ toLowerCase(trim(c)) \in FixCommands
           /\ 1 \in DOMAIN installations
           /\ LimitReached(installations[1].pr_limit,
                           Count(usage_monthly, <<1, Month(today)>>))
           /\ handleWebhook(Signed("issue_comment", Comment(1, 1, c)), fwd, enforced))
          => /\ response' = Json("skipped", "limit_reached")
             /\ fix_runs' = fix_runs
             /\ queueDir' = queueDir]_vars

\* C12 (as claimed): once no invocation is running, every task that rests
\* in done with a completed agent run has had a success report posted to
\* the worker.
SuccessReported ==
    (\A p \in Consumers : pc[p] = "idle") =>
        \A n \in DOMAIN doneDir :
            doneDir[n].result = "completed" =>
                \E i \in 1 .. Len(callbackLog) :
                    /\ callbackLog[i].id = doneDir[n].id
                    /\ callbackLog[i].status = "success"

\* C13 (as claimed): when a bug report is answered queued, one run record
\* with status queued has been appended and one new task for the same
\* tenant, repository and issue is in the queue, whatever became of the
\* forward to the backend.
AdmitMatchesStorage ==
    [][\A n \in Issues, fwd \in Forwards, enforced \in BOOLEAN :
          (/\ handleWebhook(Signed("issues", TypeErrorIssue(1, n)), fwd, enforced)
           /\ response' = Json("queued", Null))
          => /\ fix_runs' = Append(fix_runs, Run(1, LedgerRepo, n))
             /\ \E name \in DOMAIN queueDir' \ DOMAIN queueDir :
                   /\ queueDir'[name].installation_id = 1
                   /\ queueDir'[name].repo = LedgerRepo
                   /\ queueDir'[name].issue_number = n
                   /\ DOMAIN queueDir' = DOMAIN queueDir \cup {name}]_vars

----------------------------------------------------------------------------
(* Admission: every kind of request to /webhook, for one tenant and issue *)

AdmitRequests ==
    { request \in Requests :
        /\ request.payload.installation \in {None, 1}
        /\ request.payload.issue_number \in {None, 1} }

\* tenant 1 is new, or has used up the default limit this month
InitAdmit ==
    /\ Empty
    /\ \/ installations = <<>> /\ usage_monthly = <<>>
       \/ /\ installations = 1 :> Installation(DEFAULT_PLAN, DEFAULT_PR_LIMIT)
          /\ usage_monthly = <<1, 0>> :> DEFAULT_PR_LIMIT

Received ==
    \E request \in AdmitRequests, fwd \in Forwards, enforced \in BOOLEAN :
        /\ handleWebhook(request, fwd, enforced)
        /\ Len(fix_runs') <= MaxRuns
        /\ nextId' <= MaxTasks + 1

NextAdmit ==
    \/ Received
    \/ NextDay

SpecAdmit == InitAdmit /\ [][NextAdmit]_vars

\* the header is "sha256=" followed by the digest of the body under the secret
Authentic(request) == request.signature = <<"sha256=", Hmac(request.payload, WEBHOOK_SECRET)>>

\* C14: a request to /webhook whose signature header is absent or is not
\* "sha256=" + HMAC(body, secret) is answered 401 and writes no tenant, run
\* record, usage counter or mailbox file; a request with the matching
\* header is not answered 401.
FailsClosed ==
    [][today' = today =>
          IF Authentic(received')
            THEN response'.code # 401
            ELSE /\ response'.code = 401
                 /\ UNCHANGED <<installations, fix_runs, usage_monthly, mailboxVars>>]_vars

\* C14 witness: a bug report carrying the genuine signature of another
\* body has been answered 401.
FailsClosedWitness ==
    /\ received.payload = TypeErrorIssue(1, 1)
    /\ received.signature = Expected(FeatureIssue(1, 1), WEBHOOK_SECRET)
    /\ response = Text(401, "Invalid signature")

\* an opened issue, or a created comment that is /fix or /autofix once
\* trimmed and lower-cased
IsTrigger(request) ==
    \/ request.event = "issues" /\ request.payload.action = "opened"
    \/ /\ request.event = "issue_comment"
       /\ request.payload.action = "created"
       /\ toLowerCase(trim(request.payload.comment))
             \in { <<"/", "f", "i", "x">>, <<"/", "a", "u", "t", "o", "f", "i", "x">> }

\* C15 (as claimed): an authentic request records a run or writes a task
\* only if it is a trigger; every other authentic request is answered
\* ignored and records no run and writes no task.
RoutingAsClaimed ==
    [][today' = today /\ Authentic(received') /\ ~IsTrigger(received')
          => /\ response' = Json("ignored", received'.event)
             /\ UNCHANGED <<fix_runs, mailboxVars>>]_vars

\* C15 (amended): an authentic request that is not a trigger records no run
\* and writes no task; it is answered ignored and writes nothing at all,
\* unless it is an installation or installation_repositories event, which
\* is answered ok (or fails on a foreign key) and may write the tenant row.
Routing ==
    [][today' = today /\ Authentic(received') /\ ~IsTrigger(received')
          => /\ UNCHANGED <<fix_runs, usage_monthly, mailboxVars>>
             /\ IF received'.event \in {"installation", "installation_repositories"}
                  THEN response' \in {Json("ok", received'.payload.action), Thrown}
                  ELSE /\ response' = Json("ignored", received'.event)
                       /\ UNCHANGED installations]_vars

\* C15 witness: a comment " /Fix" followed by a line break has recorded a run.
RoutingWitness ==
    /\ received.event = "issue_comment"
    /\ received.payload.comment = <<" ", "/", "F", "i", "x", "\n">>
    /\ response = Json("queued", Null)
    /\ Len(fix_runs) = 1

\* some label name contains bug, fix or error, or the title, a space and
\* the body contain one of the ten keywords, all lower-cased
Eligible(payload) ==
    \/ \E l \in payload.labels : \E kw \in LabelKeywords : includes(toLowerCase(l), kw)
    \/ \E kw \in TextKeywords :
          includes(toLowerCase(payload.title \o <<" ">> \o payload.body), kw)

\* C16: an authentic opened issue of a tenant is answered skipped/not_bug,
\* with no run recorded and no task written, exactly when it is not
\* eligible; an eligible one goes on to the quota step.
Classification ==
    [][(/\ today' = today
        /\ Authentic(received')
        /\ received'.event = "issues"
        /\ received'.payload.action = "opened"
        /\ Truthy(received'.payload.installation))
          => IF Eligible(received'.payload)
               THEN response' \in {Json("queued", Null), Json("skipped", "limit_reached")}
               ELSE /\ response' = Json("skipped", "not_bug")
                    /\ UNCHANGED <<fix_runs, mailboxVars>>]_vars

\* C16 witness: "Add dark mode" with label enhancement has been answered
\* not_bug.
ClassificationWitness ==
    /\ received = Signed("issues", FeatureIssue(1, 1))
    /\ response = Json("skipped", "not_bug")

\* 401, or status skipped
IsRejection(r) == r.code = 401 \/ r.status = "skipped"

\* C17: a request answered 401 or skipped leaves the run records, the
\* usage counters and the three directories as they were; the tenant table
\* is as it was, or has gained the row of the request's tenant.
RejectionFrame ==
    [][today' = today /\ IsRejection(response')
          => /\ UNCHANGED <<fix_runs, usage_monthly, mailboxVars>>
             /\ \/ installations' = installations
                \/ /\ received'.payload.installation \notin DOMAIN installations
                   /\ installations' = Put(installations, received'.payload.installation,
                                           Installation(DEFAULT_PLAN, DEFAULT_PR_LIMIT))]_vars

\* C17 witness: a bug report of the tenant at its limit has been answered
\* limit_reached and no run is recorded.
RejectionFrameWitness ==
    /\ received = Signed("issues", TypeErrorIssue(1, 1))
    /\ response = Json("skipped", "limit_reached")
    /\ fix_runs = <<>>

\* C18: a report whose Authorization header is not the backend token is
\* answered 401 Unauthorized, and every run record and every usage counter
\* is as it was.
CallbackAuthentication ==
    [][received'.event = "callback" /\ received'.bearer # BACKEND_TOKEN
          => /\ response' = Text(401, "Unauthorized")
             /\ UNCHANGED <<fix_runs, usage_monthly>>]_vars

\* C18 witness: a report with a guessed token has been answered 401 while a
\* run is still queued.
CallbackAuthenticationWitness ==
    /\ received = Post("guess")
    /\ response = Text(401, "Unauthorized")
    /\ Len(fix_runs) = 1
    /\ fix_runs[1].status = "queued"

\* C19 (as claimed): whenever a file is renamed into PROCESSING_DIR, no file
\* in QUEUE_DIR was enqueued at an earlier reading of the clock, whatever
\* the repositories of the files.
OldestFirst ==
    [][\A n \in DOMAIN processingDir' \ DOMAIN processingDir :
          \A m \in DOMAIN queueDir : m[3] >= n[3]]_vars

\* C20 (as claimed): the name under which a request is written to QUEUE_DIR
\* is in none of the three directories before the write, so no write
\* replaces a file.
EnqueueUnique ==
    [][nextId' # nextId
          => \A n \in DOMAIN queueDir' : queueDir'[n].id = nextId => n \notin AllNames]_vars

----------------------------------------------------------------------------
(* Properties of Resolve *)

\* files in the three directories together
Total == Cardinality(DOMAIN queueDir) + Cardinality(DOMAIN processingDir)
            + Cardinality(DOMAIN doneDir)

\* positions of main() before the writeFileSync and before the unlinkSync
\* of Resolve
Writing == {"writeDone", "writeFailed", "requeue"}
Unlinking == {"unlinkDone", "unlinkFailed", "unlinkRetry"}

\* invocation p makes the file-system call it stands before
Calls(p, labels) == pc[p] \in labels /\ mailboxVars' # mailboxVars

\* C21 (as claimed): no Enqueue, Claim or Resolve lowers the number of
\* files in the three directories.  Resolve is a write followed by an
\* unlink: its write adds one file, its unlink removes one, and every
\* other step leaves the number as it was or raises it.
RecordConservation ==
    [][IF \E p \in Consumers : pc[p] \in Writing /\ pc'[p] \in Unlinking
         THEN Total' = Total + 1
         ELSE IF \E p \in Consumers : Calls(p, Unlinking)
                THEN Total' = Total - 1
                ELSE Total' >= Total]_vars

\* C22 (as claimed): an invocation whose unlinkSync of the in-flight file
\* fails (the file is gone), on the success path or on the failure path,
\* ends there: it does not go on to count a retry and write the task back.
StorageFaultFatal ==
    [][\A p \in Consumers :
          (/\ pc[p] \in Unlinking
           /\ ~Exists(processingDir, taskFile[p])
           /\ pc'[p] # pc[p])
             => pc'[p] = "idle"]_vars

----------------------------------------------------------------------------
(* Callbacks handled concurrently: the worker runs one handleCallback per   *)
(* request, and the handlers take turns at their awaits, that is between   *)
(* their SQL statements; D1 executes one statement at a time               *)

\* reports about the runs of tenant 1
TenantCallbacks == { data \in Callbacks : data.installation_id = 1 }

\* lines 304-306: the header is checked and the body parsed
Accept(h, auth, data) ==
    /\ handling[h].at = "idle"
    /\ IF ~Authorized(auth)
         THEN /\ response' = Text(401, "Unauthorized")
              /\ handling' = [handling EXCEPT ![h] = [at |-> "done", data |-> NoCallback.data]]
         ELSE /\ handling' = [handling EXCEPT ![h] = [at |-> "update", data |-> data]]
              /\ UNCHANGED response
    /\ received' = Post(auth)
    /\ UNCHANGED <<today, installations, usage_monthly, fix_runs, pending, admitting>>
    /\ UNCHANGED <<now, invocations, mailboxVars, consumerVars, historyVars>>

\* lines 307-310: the UPDATE, then the test of status and pr_number
UpdateStatement(h) ==
    LET data == handling[h].data IN
    /\ handling[h].at = "update"
    /\ fix_runs' = UpdateRuns(data)
    /\ pending' = Settle(<<data.installation_id, data.repo, data.issue_number>>)
    /\ IF Counts(data)
         THEN /\ handling' = [handling EXCEPT ![h].at = "upsert"]
              /\ UNCHANGED response
         ELSE /\ handling' = [handling EXCEPT ![h].at = "done"]
              /\ response' = Json("updated", Null)
    /\ UNCHANGED <<today, installations, usage_monthly, received, admitting>>
    /\ UNCHANGED <<now, invocations, mailboxVars, consumerVars, historyVars>>

\* lines 311-314: the upsert, then the response
UpsertStatement(h, enforced) ==
    LET data == handling[h].data IN
    /\ handling[h].at = "upsert"
    /\ IF enforced /\ data.installation_id \notin DOMAIN installations
         THEN /\ response' = Thrown
              /\ handling' = [handling EXCEPT ![h].at = "failed"]
              /\ UNCHANGED usage_monthly
         ELSE /\ usage_monthly' = Upsert(usage_monthly, <<data.installation_id, Month(today)>>)
              /\ response' = Json("updated", Null)
              /\ handling' = [handling EXCEPT ![h].at = "done"]
    /\ UNCHANGED <<today, installations, fix_runs, received, pending, admitting>>
    /\ UNCHANGED <<now, invocations, mailboxVars, consumerVars, historyVars>>

\* tenant 1 has two queued runs, and no usage row or a row of one PR for
\* the current month
InitReports ==
    /\ Quiet
    /\ installations = 1 :> Installation(DEFAULT_PLAN, DEFAULT_PR_LIMIT)
    /\ fix_runs = <<Run(1, LedgerRepo, 1), Run(1, LedgerRepo, 2)>>
    /\ usage_monthly \in {<<>>, <<1, 0>> :> 1}

Accepted == \E h \in Handlers, auth \in Bearers, data \in TenantCallbacks : Accept(h, auth, data)

Updated == \E h \in Handlers : UpdateStatement(h)

Upserted == \E h \in Handlers, enforced \in BOOLEAN : UpsertStatement(h, enforced)

NextReports ==
    \/ Accepted
    \/ Updated
    \/ Upserted

SpecReports == InitReports /\ [][NextReports]_vars

\* handlers that complete their upsert on row k in this step
Upserting(k) ==
    { h \in Handlers : /\ handling[h].at = "upsert"
                       /\ handling'[h].at = "done"
                       /\ <<handling[h].data.installation_id, Month(today)>> = k }

\* C23: in every interleaving of the handlers' statements, each step
\* raises every usage counter by exactly the number of success reports
\* with a PR number whose upsert it completes: N such reports for N runs
\* of one tenant and month leave the counter N higher.
NoLostUpdate ==
    [][\A k \in DOMAIN usage_monthly \cup DOMAIN usage_monthly' :
          Count(usage_monthly', k) = Count(usage_monthly, k) + Cardinality(Upserting(k))]_vars

\* C23 witness: two handlers, one with a success report and a PR number
\* for run 1 and one for run 2, have both answered, and the counter that
\* was 1 is 3.
NoLostUpdateWitness ==
    /\ handling["h1"] = [at |-> "done", data |-> CallbackBody(1, 1, "success", 42, Null)]
    /\ handling["h2"] = [at |-> "done", data |-> CallbackBody(1, 2, "success", 42, Null)]
    /\ fix_runs[1].status = "success"
    /\ fix_runs[2].status = "success"
    /\ Count(usage_monthly, <<1, 0>>) = 3

\* C24: when the agent fails on a task whose retry count is then below 3,
\* the invocation goes on to write the task back into the queue with the
\* count raised by exactly one, last_error set and result and completed_at
\* as they were (unset); that write and the unlink after it leave done and
\* the posted reports as they were, and the unlink empties in-flight of it.
RetryableFailure ==
    [][\A p \in Consumers :
          /\ (pc[p] = "agent" /\ failures' # failures /\ task[p].retries + 1 < 3)
                => /\ pc'[p] = "requeue"
                   /\ task'[p].retries = task[p].retries + 1
                   /\ task'[p].last_error = "error"
                   /\ task'[p].result = Null
                   /\ task'[p].completed_at = Null
                   /\ UNCHANGED <<mailboxVars, callbackLog>>
          /\ (pc[p] = "requeue" /\ pc'[p] = "unlinkRetry")
                => /\ Exists(queueDir', taskFile[p])
                   /\ queueDir'[taskFile[p]] = task[p]
                   /\ task[p].retries = processingDir[taskFile[p]].retries + 1
                   /\ UNCHANGED <<processingDir, doneDir, callbackLog>>
          /\ (pc[p] = "unlinkRetry" /\ pc'[p] = "idle" /\ mailboxVars' # mailboxVars)
                => /\ ~Exists(processingDir', taskFile[p])
                   /\ UNCHANGED <<queueDir, doneDir, callbackLog>>]_vars

\* C24 witness: after one failure the task is back in the queue and nowhere
\* else, counted once, with no outcome and no report.
RetryableFailureWitness ==
    /\ pc[Cron] = "idle"
    /\ processingDir = <<>>
    /\ doneDir = <<>>
    /\ callbackLog = <<>>
    /\ \E n \in DOMAIN queueDir :
          /\ queueDir[n].retries = 1
          /\ queueDir[n].last_error = "error"
          /\ queueDir[n].result = Null
          /\ queueDir[n].completed_at = Null
          /\ Count(failures, queueDir[n].id) = 1

\* C25 (as claimed): a task written back to the queue takes a position
\* behind every file waiting there at that moment.  The next claims take
\* the first names in sort() order, so the waiting files are claimed
\* before the retried one exactly if their names sort before its name.
RetryAtBack ==
    [][\A p \in Consumers :
          (pc[p] = "requeue" /\ pc'[p] = "unlinkRetry")
             => \A m \in DOMAIN queueDir \ {taskFile[p]} : NameBefore(m, taskFile[p])]_vars

\* C26: a report is posted only by an invocation that stands after the
\* unlink of line 66, and then it is one failed report for its task, whose
\* agent has failed three times, which is in done as failed and not in
\* flight, and for which no report was posted before; the third failure of
\* a task leads to the write into done, and the unlink after that write
\* leads to the report; the steps of a re-queue post nothing.
FailureCallback ==
    [][/\ callbackLog' # callbackLog
            => \E p \in Consumers :
                  /\ pc[p] = "callback"
                  /\ Len(callbackLog') = Len(callbackLog) + 1
                  /\ SubSeq(callbackLog', 1, Len(callbackLog)) = callbackLog
                  /\ callbackLog'[Len(callbackLog')].id = task[p].id
                  /\ callbackLog'[Len(callbackLog')].status = "failed"
                  /\ Count(failures, task[p].id) = 3
                  /\ Exists(doneDir, taskFile[p])
                  /\ doneDir[taskFile[p]].id = task[p].id
                  /\ doneDir[taskFile[p]].result = "failed"
                  /\ ~Exists(processingDir, taskFile[p])
                  /\ \A i \in 1 .. Len(callbackLog) : callbackLog[i].id # task[p].id
       /\ \A p \in Consumers :
            /\ (pc[p] = "agent" /\ failures' # failures)
                  => pc'[p] = IF Count(failures', task[p].id) = 3 THEN "writeFailed" ELSE "requeue"
            /\ (pc[p] = "writeFailed" /\ doneDir' # doneDir) => pc'[p] = "unlinkFailed"
            /\ (pc[p] = "unlinkFailed" /\ processingDir' # processingDir) => pc'[p] = "callback"
            /\ pc[p] \in {"requeue", "unlinkRetry"} => callbackLog' = callbackLog]_vars

\* C26 witness: one failed report has been posted, for the task that rests
\* in done after three failures; nothing is in flight.
FailureCallbackWitness ==
    /\ Len(callbackLog) = 1
    /\ callbackLog[1].status = "failed"
    /\ processingDir = <<>>
    /\ pc[Cron] = "idle"
    /\ \E n \in DOMAIN doneDir :
          /\ doneDir[n].id = callbackLog[1].id
          /\ doneDir[n].retries = 3
          /\ doneDir[n].result = "failed"

\* file n of directory dir is new or rewritten in this step
Written(dir, n) == n \in DOMAIN dir' /\ (n \in DOMAIN dir => dir'[n] # dir[n])

\* C27: every file in the three directories has a name Enqueue has
\* written; a step that is not an Enqueue puts a file into in-flight only
\* under the name it has in the queue, and into done or back into the queue
\* only under the name it has in flight, and it is the same task.
IdentityPreserved ==
    [][/\ AllNames' \subseteq written'
       /\ nextId' = nextId =>
            /\ AllNames' \subseteq AllNames
            /\ \A n \in AllNames' :
                  /\ Written(processingDir, n)
                        => n \in DOMAIN queueDir /\ processingDir'[n].id = queueDir[n].id
                  /\ Written(doneDir, n)
                        => n \in DOMAIN processingDir /\ doneDir'[n].id = processingDir[n].id
                  /\ Written(queueDir, n)
                        => n \in DOMAIN processingDir /\ queueDir'[n].id = processingDir[n].id]_vars

\* C27 witness: a task that failed once and then succeeded rests in done
\* under the name Enqueue gave it, after four relocations.
IdentityPreservedWitness ==
    \E n \in DOMAIN doneDir :
        /\ n \in written
        /\ n[1] = Slug(doneDir[n].repo)
        /\ doneDir[n].retries = 1
        /\ doneDir[n].result = "completed"
        /\ RegionsOf(n) = {3}

\* C28: the step of an invocation that stands at the gate while in-flight
\* holds a file ends the invocation: it is back at rest with no file
\* chosen, and the three directories, the posted reports and the count of
\* agent runs are as they were.
GateNoOp ==
    [][\A p \in Consumers :
          (pc[p] = "gate" /\ DOMAIN processingDir # {} /\ pc'[p] # pc[p])
             => /\ pc'[p] = "idle"
                /\ taskFile'[p] = NoFile
                /\ UNCHANGED <<mailboxVars, callbackLog, attempts, renames>>]_vars

\* C28 witness: an invocation stands at the gate while another one runs the
\* agent on the file in flight and a second task waits in the queue.
GateNoOpWitness ==
    \E p, q \in Consumers :
        /\ pc[p] = "gate"
        /\ pc[q] = "agent"
        /\ Exists(processingDir, taskFile[q])
        /\ DOMAIN queueDir # {}

\* the order of the positions of main(): a later statement has a higher
\* number, the two branches of the catch block share theirs
Line(label) ==
    CASE label = "idle" -> 0
      [] label = "gate" -> 1
      [] label = "scan" -> 2
      [] label = "rename" -> 3
      [] label = "load" -> 4
      [] label = "agent" -> 5
      [] label = "writeDone" -> 6
      [] label = "unlinkDone" -> 7
      [] label \in {"writeFailed", "requeue"} -> 8
      [] label \in {"unlinkFailed", "unlinkRetry"} -> 9
      [] label = "callback" -> 10

RECURSIVE Sum(_, _)
Sum(f, S) == IF S = {} THEN 0 ELSE LET x == CHOOSE y \in S : TRUE IN f[x] + Sum(f, S \ {x})

\* C29: an invocation only moves forward through main() until it ends, so
\* it passes the rename and the agent call at most once; a file leaves the
\* queue only in the rename step of one invocation, one file at a time; the
\* agent is run only from the agent call of one invocation; and there are
\* never more agent runs than invocations started.
OneTaskPerInvocation ==
    [][/\ \A p \in Consumers :
            pc'[p] # pc[p] => pc'[p] = "idle" \/ Line(pc'[p]) > Line(pc[p])
       /\ DOMAIN queueDir \ DOMAIN queueDir' # {}
            => /\ Cardinality(DOMAIN queueDir \ DOMAIN queueDir') = 1
               /\ \E p \in Consumers : pc[p] = "rename" /\ pc'[p] = "load"
       /\ attempts' # attempts
            => /\ Sum(attempts', DOMAIN attempts') = Sum(attempts, DOMAIN attempts) + 1
               /\ \E p \in Consumers : pc[p] = "agent" /\ pc'[p] # "agent"
       /\ Sum(attempts', DOMAIN attempts') <= invocations']_vars

\* C29 witness: the only invocation started has ended with one task in done
\* while the other task is still in the queue.
OneTaskPerInvocationWitness ==
    /\ invocations = 1
    /\ \A p \in Consumers : pc[p] = "idle"
    /\ Cardinality(DOMAIN doneDir) = 1
    /\ Cardinality(DOMAIN queueDir) = 1
    /\ processingDir = <<>>
    /\ Sum(attempts, DOMAIN attempts) = 1

\* the tasks in done
Finished == { doneDir[n].id : n \in DOMAIN doneDir }

\* C30 (as claimed): the retry count a file carries never drops; a file in
\* done stays there as it is; and no task that is in done is written into
\* the queue or into in-flight.
TaskMonotonic ==
    [][/\ \A i \in 1 .. 3 : \A n \in DOMAIN Regions[i] \cap DOMAIN Regions[i]' :
            Regions[i]'[n].id = Regions[i][n].id
               => Regions[i]'[n].retries >= Regions[i][n].retries
       /\ \A n \in DOMAIN doneDir : n \in DOMAIN doneDir' /\ doneDir'[n] = doneDir[n]
       /\ \A n \in DOMAIN queueDir' :
            Written(queueDir, n) => queueDir'[n].id \notin Finished
       /\ \A n \in DOMAIN processingDir' :
            Written(processingDir, n) => processingDir'[n].id \notin Finished]_vars

----------------------------------------------------------------------------
(* Properties of admission and of the tenant table *)

\* C31: a bug report or a fix command leaves every tenant row that exists
\* as it is, plan and pr_limit included; the only row it may add is the
\* row of its own tenant, on the free plan with pr_limit 5.
InsertIfAbsent ==
    [][received'.event \in {"issues", "issue_comment"}
          => /\ \A t \in DOMAIN installations :
                   t \in DOMAIN installations' /\ installations'[t] = installations[t]
             /\ \A t \in DOMAIN installations' \ DOMAIN installations :
                   /\ t = received'.payload.installation
                   /\ installations'[t].plan = "free"
                   /\ installations'[t].pr_limit = 5]_vars

\* C31 witness: the tenant the operator put on the unlimited plan has had a
\* bug report and a fix command admitted, and its row is as it was.
InsertIfAbsentWitness ==
    /\ installations = 1 :> Installation("pro", UNLIMITED)
    /\ received.event = "issue_comment"
    /\ response = Json("queued", Null)
    /\ Len(fix_runs) >= 2

----------------------------------------------------------------------------
(* Issue events handled concurrently with installation events: the         *)
(* handlers take turns at the awaits of handleIssueOpened, that is between *)
(* its SQL statements and its fetch                                        *)

\* lines 192-259: the request is authentic, names its tenant and looks
\* like a bug
Begin(h, payload) ==
    /\ admitting[h].at = "idle"
    /\ Truthy(payload.installation)
    /\ looksLikeBug(payload.title, payload.body, payload.labels)
    /\ admitting' = [admitting EXCEPT ![h] = [NoAdmission EXCEPT !.at = "ensure", !.payload = payload]]
    /\ received' = Signed("issues", payload)
    /\ UNCHANGED <<today, installations, usage_monthly, fix_runs, response, handling, pending>>
    /\ UNCHANGED <<now, invocations, mailboxVars, consumerVars, historyVars>>

\* line 261
Ensure(h) ==
    /\ admitting[h].at = "ensure"
    /\ installations' = ensureInstallation(admitting[h].payload.installation)
    /\ admitting' = [admitting EXCEPT ![h].at = "select"]
    /\ UNCHANGED <<today, usage_monthly, fix_runs, response, received, handling, pending>>
    /\ UNCHANGED <<now, invocations, mailboxVars, consumerVars, historyVars>>

\* lines 264-265: SELECT * FROM installations ... .first(), and if (install)
Select(h) ==
    LET installId == admitting[h].payload.installation IN
    /\ admitting[h].at = "select"
    /\ admitting' = [admitting EXCEPT ![h] =
          IF installId \in DOMAIN installations
            THEN [@ EXCEPT !.at = "quota", !.found = TRUE, !.install = installations[installId]]
            ELSE [@ EXCEPT !.at = "insert"]]
    /\ UNCHANGED <<today, installations, usage_monthly, fix_runs, response, received, handling, pending>>
    /\ UNCHANGED <<now, invocations, mailboxVars, consumerVars, historyVars>>

\* lines 266-267
Quota(h) ==
    LET installId == admitting[h].payload.installation
        count == Count(usage_monthly, <<installId, Month(today)>>)
    IN
    /\ admitting[h].at = "quota"
    /\ IF LimitReached(admitting[h].install.pr_limit, count)
         THEN /\ response' = Json("skipped", "limit_reached")
              /\ admitting' = [admitting EXCEPT ![h].at = "done"]
         ELSE /\ admitting' = [admitting EXCEPT ![h].at = "insert"]
              /\ UNCHANGED response
    /\ UNCHANGED <<today, installations, usage_monthly, fix_runs, received, handling, pending>>
    /\ UNCHANGED <<now, invocations, mailboxVars, consumerVars, historyVars>>

\* mutant: the handler goes on to the fetch without its INSERT INTO fix_runs
InsertSkipped(h, enforced) ==
    /\ admitting[h].at = "insert"
    /\ admitting' = [admitting EXCEPT ![h].at = "forward"]
    /\ UNCHANGED <<today, installations, usage_monthly, fix_runs, response, received, handling, pending>>
    /\ UNCHANGED <<now, invocations, mailboxVars, consumerVars, historyVars>>

\* line 270
Insert(h, enforced) ==
    LET payload == admitting[h].payload IN
    /\ admitting[h].at = "insert"
    /\ IF enforced /\ payload.installation \notin DOMAIN installations
         THEN /\ response' = Thrown
              /\ admitting' = [admitting EXCEPT ![h].at = "failed"]
              /\ UNCHANGED fix_runs
         ELSE /\ fix_runs' = Append(fix_runs, Run(payload.installation, payload.repo,
                                                  payload.issue_number))
              /\ admitting' = [admitting EXCEPT ![h].at = "forward"]
              /\ UNCHANGED response
    /\ UNCHANGED <<today, installations, usage_monthly, received, handling, pending>>
    /\ UNCHANGED <<now, invocations, mailboxVars, consumerVars, historyVars>>

\* lines 273-281
Forwarded(h, fwd) ==
    LET payload == admitting[h].payload
        key == <<payload.installation, payload.repo, payload.issue_number>>
    IN
    /\ admitting[h].at = "forward"
    /\ Forward(fwd, payload.installation, payload.repo, payload.issue_number)
    /\ pending' = IF fwd = "delivered" THEN Bump(pending, key) ELSE pending
    /\ response' = Json("queued", Null)
    /\ admitting' = [admitting EXCEPT ![h].at = "done"]
    /\ UNCHANGED <<today, installations, usage_monthly, fix_runs, received, handling>>
    /\ UNCHANGED <<now, invocations, consumerVars>>

Began == \E h \in Handlers, n \in Issues : Begin(h, TypeErrorIssue(1, n))

Ensured == \E h \in Handlers : Ensure(h)

Selected == \E h \in Handlers : Select(h)

QuotaChecked == \E h \in Handlers : Quota(h)

Inserted == \E h \in Handlers, enforced \in BOOLEAN : Insert(h, enforced)

ForwardDone == \E h \in Handlers, fwd \in Forwards : Forwarded(h, fwd)

\* the app is uninstalled, or installed again, while issue events are in
\* progress
Uninstalled ==
    \E action \in {"created", "deleted"}, enforced \in BOOLEAN :
        handleWebhook(Signed("installation", Lifecycle(action, 1)), "delivered", enforced)

\* C32 (as claimed): a handler that has looked the tenant up goes on to the
\* quota step, whether or not the lookup found a row, also when the row was
\* deleted after the handler's INSERT OR IGNORE.
QuotaNeverSkipped ==
    [][\A h \in Handlers :
          (admitting[h].at = "select" /\ admitting'[h].at # "select")
             => admitting'[h].at = "quota"]_vars

\* C33: no step lowers a usage counter; an authenticated report changes
\* the counters only if its status is success and it carries a PR number,
\* and then the counter of its tenant for the current month is one higher
\* and every other counter is as it was.
CountsOnlySuccess ==
    [][/\ \A k \in DOMAIN usage_monthly :
            k \in DOMAIN usage_monthly' /\ usage_monthly'[k] >= usage_monthly[k]
       /\ usage_monthly' # usage_monthly
            => /\ received'.event = "callback"
               /\ received'.bearer = BACKEND_TOKEN
               /\ \A data \in LedgerCallbacks, enforced \in BOOLEAN :
                     handleCallback(BACKEND_TOKEN, data, enforced)
                        => /\ data.status = "success"
                           /\ data.pr_number # None
                           /\ \A k \in DOMAIN usage_monthly' :
                                 usage_monthly'[k] = Count(usage_monthly, k)
                                    + (IF k = <<data.installation_id, Month(today)>>
                                         THEN 1 ELSE 0)]_vars

\* C33 witness: a success report without a PR number has set its run to
\* success and no counter exists.
CountsOnlySuccessWitness ==
    /\ received = Post(BACKEND_TOKEN)
    /\ Len(fix_runs) = 1
    /\ fix_runs[1].status = "success"
    /\ fix_runs[1].pr_number = None
    /\ usage_monthly = <<>>

----------------------------------------------------------------------------
(* The periodic job without kills: every invocation runs to its end and    *)
(* invocations do not overlap                                              *)

NextCron ==
    \/ EnqueueStep
    \/ Tick
    \/ CronStart
    \/ ConsumerStep(Cron)

SpecCron == Init /\ [][NextCron]_vars

\* C34: while no invocation is running, PROCESSING_DIR is empty, whether
\* the last agent run succeeded, failed with retries left, or failed for
\* the third time.
GateReleased == pc[Cron] = "idle" => processingDir = <<>>

\* C34 witness: no invocation is running and nothing is in flight; one
\* task is in done as completed after a retry and one as failed after
\* three failures.
GateReleasedWitness ==
    /\ pc[Cron] = "idle"
    /\ processingDir = <<>>
    /\ \E n, m \in DOMAIN doneDir :
          /\ doneDir[n].result = "completed"
          /\ doneDir[n].retries = 1
          /\ doneDir[m].result = "failed"
          /\ doneDir[m].retries = 3

\* the task with identity id is in done
Done(id) == \E n \in DOMAIN doneDir : doneDir[n].id = id

\* every invocation that has started goes on, and the periodic job starts
\* a new one whenever none is running
SpecFair == SpecCron /\ WF_vars(CronStart) /\ WF_vars(ConsumerStep(Cron))

\* C35 (as claimed): every task that has been enqueued is eventually in
\* done, whatever the agent does.
EventuallyDone == \A id \in 1 .. MaxTasks : nextId > id ~> Done(id)

\* C36 (as claimed): one authenticated report changes the status of at
\* most one run record, also when several runs of its tenant, repository
\* and issue are open.
OneCallbackOneRun ==
    [][Cardinality({ i \in 1 .. Len(fix_runs) : fix_runs'[i].status # fix_runs[i].status }) <= 1]_vars

\* C37: a file in the queue or in flight carries a retry count of 0, 1 or
\* 2; a file in done carries 3 if its outcome is failed and 0, 1 or 2 if it
\* is completed.
RetryBounds ==
    /\ \A n \in DOMAIN queueDir : queueDir[n].retries \in 0 .. 2
    /\ \A n \in DOMAIN processingDir : processingDir[n].retries \in 0 .. 2
    /\ \A n \in DOMAIN doneDir :
          /\ doneDir[n].result \in {"failed", "completed"}
          /\ doneDir[n].result = "failed" => doneDir[n].retries = 3
          /\ doneDir[n].result = "completed" => doneDir[n].retries \in 0 .. 2

\* C37 witness: done holds a task that failed with a count of 3 while a
\* task that has already failed is back in the queue or in flight.
RetryBoundsWitness ==
    /\ \E n \in DOMAIN doneDir : doneDir[n].result = "failed" /\ doneDir[n].retries = 3
    /\ \/ \E n \in DOMAIN queueDir : queueDir[n].retries \in 1 .. 2
       \/ \E n \in DOMAIN processingDir : processingDir[n].retries \in 1 .. 2

----------------------------------------------------------------------------
(* Fix commands handled step by step, next to the issue events: the awaits *)
(* of handleFixCommand are its two SQL statements and its fetch            *)

\* lines 192-288: the request is authentic, its comment is a fix command
\* and it names its tenant
BeginCommand(h, payload) ==
    /\ admitting[h].at = "idle"
    /\ payload.action = "created"
    /\ toLowerCase(trim(payload.comment)) \in FixCommands
    /\ Truthy(payload.installation)
    /\ admitting' = [admitting EXCEPT ![h] = [NoAdmission EXCEPT !.at = "ensureFix", !.payload = payload]]
    /\ received' = Signed("issue_comment", payload)
    /\ UNCHANGED <<today, installations, usage_monthly, fix_runs, response, handling, pending>>
    /\ UNCHANGED <<now, invocations, mailboxVars, consumerVars, historyVars>>

\* line 290
EnsureCommand(h) ==
    /\ admitting[h].at = "ensureFix"
    /\ installations' = ensureInstallation(admitting[h].payload.installation)
    /\ admitting' = [admitting EXCEPT ![h].at = "insertFix"]
    /\ UNCHANGED <<today, usage_monthly, fix_runs, response, received, handling, pending>>
    /\ UNCHANGED <<now, invocations, mailboxVars, consumerVars, historyVars>>

\* line 292
InsertCommand(h, enforced) ==
    LET payload == admitting[h].payload IN
    /\ admitting[h].at = "insertFix"
    /\ IF enforced /\ payload.installation \notin DOMAIN installations
         THEN /\ response' = Thrown
              /\ admitting' = [admitting EXCEPT ![h].at = "failed"]
              /\ UNCHANGED fix_runs
         ELSE /\ fix_runs' = Append(fix_runs, Run(payload.installation, payload.repo,
                                                  payload.issue_number))
              /\ admitting' = [admitting EXCEPT ![h].at = "forwardFix"]
              /\ UNCHANGED response
    /\ UNCHANGED <<today, installations, usage_monthly, received, handling, pending>>
    /\ UNCHANGED <<now, invocations, mailboxVars, consumerVars, historyVars>>

\* lines 293-300
ForwardedCommand(h, fwd) ==
    LET payload == admitting[h].payload IN
    /\ admitting[h].at = "forwardFix"
    /\ Forward(fwd, payload.installation, payload.repo, payload.issue_number)
    /\ response' = Json("queued", Null)
    /\ admitting' = [admitting EXCEPT ![h].at = "done"]
    /\ UNCHANGED <<today, installations, usage_monthly, fix_runs, received, handling, pending>>
    /\ UNCHANGED <<now, invocations, consumerVars>>

Commanded ==
    \E h \in Handlers, n \in Issues : BeginCommand(h, Comment(1, n, <<" ", "/", "F", "i", "x", "\n">>))

EnsuredCommand == \E h \in Handlers : EnsureCommand(h)

InsertedCommand == \E h \in Handlers, enforced \in BOOLEAN : InsertCommand(h, enforced)

ForwardDoneCommand == \E h \in Handlers, fwd \in Forwards : ForwardedCommand(h, fwd)

NextTriggers ==
    \/ Began
    \/ Ensured
    \/ Selected
    \/ QuotaChecked
    \/ Inserted
    \/ ForwardDone
    \/ Commanded
    \/ EnsuredCommand
    \/ InsertedCommand
    \/ ForwardDoneCommand
    \/ Uninstalled

SpecTriggers == InitAdmit /\ [][NextTriggers]_vars

\* the table holds a run record for the tenant, repository and issue of task
HasRun(runs, t) ==
    \E i \in 1 .. Len(runs) :
        /\ runs[i].installation_id = t.installation_id
        /\ runs[i].repo = t.repo
        /\ runs[i].issue_number = t.issue_number

\* C38: a step that writes a task into the queue finds a run record for the
\* same tenant, repository and issue already in the table, and after every
\* step each queued task has its run record.
RunPrecedesTask ==
    [][\A n \in DOMAIN queueDir' :
          /\ HasRun(fix_runs', queueDir'[n])
          /\ Written(queueDir, n) => HasRun(fix_runs, queueDir'[n])]_vars

\* C38 witness: a fix command has been answered queued and its task is in
\* the queue, while the table holds two run records and only one task has
\* ever been written, so one run record has no task.
RunPrecedesTaskWitness ==
    /\ \E h \in Handlers :
          /\ admitting[h].at = "done"
          /\ admitting[h].payload.action = "created"
    /\ response = Json("queued", Null)
    /\ Len(fix_runs) = 2
    /\ nextId = 2
    /\ \E n \in DOMAIN queueDir : HasRun(fix_runs, queueDir[n])

====
